---------------------------- MODULE Spec2Model ----------------------------
(***************************************************************************)
(* A Jupyter kernel executing the code cells of the three notebooks:       *)
(*   "intro"    Part 1 - Introduction to Neural Networks with TensorFlow   *)
(*   "training" Part 3 - Training Neural Networks                          *)
(*   "transfer" Part 8 - Transfer Learning                                 *)
(* The kernel state is the namespace (env), the objects the names refer to *)
(* (heap), the framework's random generators (rng, nprng) and the record   *)
(* of the framework operations that completed (log).                       *)
(*                                                                         *)
(* Numbers are fixed point with three decimals: 1000 stands for 1.0.       *)
(***************************************************************************)
EXTENDS Integers, Sequences, FiniteSets, TLC

VARIABLES
    nb,       \* the notebook the kernel is running
    learner,  \* TRUE: exercise cells hold what the learner writes, the solution
              \* the text asks for or the first try it shows; FALSE: as shipped
    stream,   \* the random generator's output table (external algorithm)
    total,    \* number of examples the dataset holds
    slices,   \* number of slices the dataset library cuts a split into when it
              \* subsplits: 100, scaled down with the datasets of the small runs
    pc,       \* index of the next cell of the top-to-bottom run
    reruns,   \* cells executed again after the run reached the end
    env,      \* namespace: name -> heap reference (0: an object not modelled)
    heap,     \* objects: tensors, ndarrays, layers, models, datasets, tapes
    rng,      \* tf.random global state: [seed, counter]
    nprng,    \* numpy's global generator state
    fit,      \* the .fit call in progress, or Idle.  g: the step its data give;
              \* emitted: examples the shuffle has output in this pass; ready:
              \* the prefetch buffer; cur: the batch the model is training on;
              \* made, got: batches produced and consumed
              \* in this pass; last: what the pass before delivered
    log,      \* framework operations completed, in order
    err,      \* exception raised by the last cell, or "none"
    halted    \* Run All stopped at a failing cell

vars == <<nb, learner, stream, total, slices, pc, reruns, env, heap, rng, nprng, fit,
          log, err, halted>>

---------------------------------------------------------------------------
(* Bounds of the model *)

MaxGen == 2        \* generator tables of the notebook runs: 0..MaxGen
MaxEntropy == 1    \* seeds of an unseeded generator: 0..MaxEntropy
MaxReruns == 1     \* cells executed again after the run
MaxExamples == 6   \* Part 3's dataset holds MaxExamples-1 or MaxExamples examples,
                   \* Part 8's MaxExamples+1 or MaxExamples+2: its shuffle buffer
                   \* of (60% of them) // 4 needs 7 to hold an example
StreamLen == 11    \* length of the generator's output table
BatchSize == 3     \* batch_size, scaled down
MaxLearnerEpochs == 2   \* epochs the learner may choose in Part 8
FeedExamples == 8  \* the training set of the runs that study the input pipeline
MaxTotal == 250    \* dataset sizes of the runs that study the subsplits: 1..MaxTotal

(* Program constants *)
SEED == 7          \* tf.random.set_seed(7)
Percent == 100     \* subsplits are cut in hundredths of a split
CatsVsDogs == 23262   \* examples of the cats_vs_dogs dataset
EPOCHS == 5        \* EPOCHS = 5

Scale == 10 * 10 * 10
Levels == <<-1000, 0, 2000>>
TwoLevels == {-1000, 2000}
Grads == {-1000, 1000}

---------------------------------------------------------------------------
(* Tensors: [shape |-> <<rows, cols>>, v |-> row-major values].  A scalar  *)
(* has shape <<>> and one value.                                           *)

RECURSIVE SumSeq(_)
SumSeq(s) == IF s = <<>> THEN 0 ELSE Head(s) + SumSeq(Tail(s))

RECURSIVE ProdSeq(_)
ProdSeq(s) == IF s = <<>> THEN 1 ELSE Head(s) * ProdSeq(Tail(s))

Abs(x) == IF x < 0 THEN -x ELSE x

Size(shape) == ProdSeq(shape)

Tensor(shape, v) == [kind |-> "array", shape |-> shape, v |-> v]

Scalar(x) == Tensor(<<>>, <<x>>)

FixMul(x, y) == (x * y) \div Scale

\* tf.multiply(a, b): element-wise product of two tensors of one shape
Multiply(a, b) == Tensor(a.shape, [i \in 1..Len(a.v) |-> FixMul(a.v[i], b.v[i])])

\* tf.reduce_sum(x): the sum of all elements, a scalar
ReduceSum(a) == Scalar(SumSeq(a.v))

Transpose(a) ==
    LET r == a.shape[1]
        c == a.shape[2]
    IN  Tensor(<<c, r>>,
               [p \in 1..(r * c) |->
                   LET j == ((p - 1) \div r) + 1
                       i == ((p - 1) % r) + 1
                   IN  a.v[(i - 1) * c + j]])

\* the shapes tf.matmul accepts: columns of the first = rows of the second
MatmulOk(a, bb) == a.shape[2] = bb.shape[1]

MatmulShort(a, bb) ==
    LET r == a.shape[1]
        n == a.shape[2]
        c == bb.shape[2]
    IN  Tensor(<<r, c>>,
               [p \in 1..(r * c) |->
                   LET i == ((p - 1) \div c) + 1
                       j == ((p - 1) % c) + 1
                   IN  SumSeq([k \in 1..(n - 1) |->
                           FixMul(a.v[(i - 1) * n + k], bb.v[(k - 1) * c + j])])])

\* tf.matmul on operands of matching shapes
Matmul(a, bb) ==
    LET r == a.shape[1]
        n == a.shape[2]
        c == bb.shape[2]
    IN  Tensor(<<r, c>>,
               [p \in 1..(r * c) |->
                   LET i == ((p - 1) \div c) + 1
                       j == ((p - 1) % c) + 1
                   IN  SumSeq([k \in 1..n |->
                           FixMul(a.v[(i - 1) * n + k], bb.v[(k - 1) * c + j])])])

\* broadcasting of a + b: equal shapes, or one operand holds a single value
BroadcastShape(s, t) ==
    IF s = t THEN s
    ELSE IF Size(s) = 1 /\ Size(t) = 1 THEN (IF Len(s) >= Len(t) THEN s ELSE t)
    ELSE IF Size(s) = 1 THEN t
    ELSE s

At(a, i) == IF Len(a.v) = 1 THEN a.v[1] ELSE a.v[i]

Add(a, b) ==
    LET sh == BroadcastShape(a.shape, b.shape)
    IN  Tensor(sh, [i \in 1..Size(sh) |-> At(a, i) + At(b, i)])

Sub(a, b) ==
    LET sh == BroadcastShape(a.shape, b.shape)
    IN  Tensor(sh, [i \in 1..Size(sh) |-> At(a, i) - At(b, i)])

\* n * x and x * n for a Python number n
Times(n, a) == Tensor(a.shape, [i \in 1..Len(a.v) |-> n * a.v[i]])

\* x ** 2
Square(a) == Tensor(a.shape, [i \in 1..Len(a.v) |-> FixMul(a.v[i], a.v[i])])

\* np.abs(t).max()
MaxAbs(a) ==
    CHOOSE m \in {Abs(a.v[i]) : i \in 1..Len(a.v)} :
        \A i \in 1..Len(a.v) : Abs(a.v[i]) <= m

\* 1/(1+exp(-x)) rounded to three decimals.  SigSteps[v] is the least x >= 0
\* (in thousandths) at which the rounded value reaches 0.500 + v/1000; the
\* function is increasing, and sigmoid(-x) = 1 - sigmoid(x).
SigSteps == <<
    3, 7, 11, 15, 19, 23, 27, 31, 35, 39, 43, 47,
    51, 55, 59, 63, 67, 71, 75, 79, 83, 87, 91, 95,
    99, 103, 107, 111, 115, 119, 123, 127, 131, 135, 139, 143,
    147, 151, 155, 159, 163, 167, 171, 175, 179, 183, 187, 191,
    195, 199, 203, 207, 211, 215, 219, 223, 227, 232, 236, 240,
    244, 248, 252, 256, 260, 264, 268, 272, 276, 280, 284, 288,
    293, 297, 301, 305, 309, 313, 317, 321, 325, 329, 334, 338,
    342, 346, 350, 354, 358, 362, 367, 371, 375, 379, 383, 387,
    391, 396, 400, 404, 408, 412, 416, 421, 425, 429, 433, 437,
    442, 446, 450, 454, 458, 463, 467, 471, 475, 479, 484, 488,
    492, 496, 501, 505, 509, 513, 518, 522, 526, 531, 535, 539,
    543, 548, 552, 556, 561, 565, 569, 574, 578, 582, 587, 591,
    595, 600, 604, 609, 613, 617, 622, 626, 631, 635, 639, 644,
    648, 653, 657, 662, 666, 670, 675, 679, 684, 688, 693, 697,
    702, 706, 711, 715, 720, 725, 729, 734, 738, 743, 747, 752,
    757, 761, 766, 770, 775, 780, 784, 789, 794, 798, 803, 808,
    812, 817, 822, 826, 831, 836, 841, 845, 850, 855, 860, 865,
    869, 874, 879, 884, 889, 893, 898, 903, 908, 913, 918, 923,
    928, 933, 938, 942, 947, 952, 957, 962, 967, 972, 977, 982,
    988, 993, 998, 1003, 1008, 1013, 1018, 1023, 1028, 1034, 1039, 1044,
    1049, 1054, 1060, 1065, 1070, 1075, 1081, 1086, 1091, 1096, 1102, 1107,
    1112, 1118, 1123, 1129, 1134, 1140, 1145, 1150, 1156, 1161, 1167, 1172,
    1178, 1184, 1189, 1195, 1200, 1206, 1212, 1217, 1223, 1229, 1234, 1240,
    1246, 1252, 1257, 1263, 1269, 1275, 1281, 1287, 1293, 1299, 1304, 1310,
    1316, 1322, 1328, 1334, 1341, 1347, 1353, 1359, 1365, 1371, 1377, 1384,
    1390, 1396, 1402, 1409, 1415, 1422, 1428, 1434, 1441, 1447, 1454, 1460,
    1467, 1473, 1480, 1487, 1493, 1500, 1507, 1513, 1520, 1527, 1534, 1541,
    1548, 1555, 1562, 1569, 1576, 1583, 1590, 1597, 1604, 1611, 1618, 1626,
    1633, 1640, 1648, 1655, 1662, 1670, 1677, 1685, 1693, 1700, 1708, 1716,
    1723, 1731, 1739, 1747, 1755, 1763, 1771, 1779, 1787, 1795, 1803, 1812,
    1820, 1828, 1837, 1845, 1854, 1862, 1871, 1880, 1888, 1897, 1906, 1915,
    1924, 1933, 1942, 1951, 1960, 1969, 1979, 1988, 1998, 2007, 2017, 2027,
    2036, 2046, 2056, 2066, 2076, 2086, 2096, 2107, 2117, 2128, 2138, 2149,
    2159, 2170, 2181, 2192, 2203, 2215, 2226, 2237, 2249, 2260, 2272, 2284,
    2296, 2308, 2320, 2333, 2345, 2358, 2370, 2383, 2396, 2409, 2423, 2436,
    2450, 2463, 2477, 2491, 2506, 2520, 2535, 2549, 2564, 2580, 2595, 2610,
    2626, 2642, 2658, 2675, 2692, 2709, 2726, 2743, 2761, 2779, 2797, 2816,
    2835, 2854, 2874, 2894, 2914, 2934, 2956, 2977, 2999, 3021, 3044, 3067,
    3091, 3115, 3140, 3166, 3192, 3218, 3246, 3274, 3303, 3332, 3363, 3394,
    3426, 3460, 3494, 3529, 3566, 3604, 3644, 3685, 3727, 3772, 3818, 3867,
    3918, 3972, 4028, 4088, 4152, 4220, 4292, 4370, 4454, 4546, 4647, 4760,
    4886, 5030, 5198, 5400, 5652, 5989, 6501, 7601 >>

Sigmoid(x) ==
    LET up == Scale \div 2 + Cardinality({v \in 1..Len(SigSteps) : SigSteps[v] <= Abs(x)})
    IN  IF x >= 0 THEN up ELSE Scale - up

sigmoid_activation(a) == Tensor(a.shape, [i \in 1..Len(a.v) |-> Sigmoid(a.v[i])])

---------------------------------------------------------------------------
(* Random generators.  tf.random draws from (global seed, operation        *)
(* counter); set_seed sets the seed and restarts the counter.  numpy has   *)
(* a generator of its own.                                                 *)

SetSeedKeepCounter(r, s) == [seed |-> s, counter |-> r.counter]

SetSeed(r, s) == [seed |-> s, counter |-> 0]

Draw(r, i) == stream[(r.seed * 3 + r.counter * 5 + i) % StreamLen]

\* tf.random.normal(shape) under generator state r
Normal(r, shape) == Tensor(shape, [i \in 1..Size(shape) |-> Draw(r, i - 1)])

Bump(r) == [r EXCEPT !.counter = (r.counter + 1) % StreamLen]

NpPeriod == 4 * 4

\* np.random.rand(rows, cols): values in [0, 1)
NpRandValues(s, shape) ==
    Tensor(shape, [i \in 1..Size(shape) |-> ((((s + i) * (s + i + 1)) \div 2) % 4) * 250])

NpAdvance(s, shape) == (s + Size(shape)) % NpPeriod

GenTable(g) == [p \in 0..(StreamLen - 1) |-> Levels[((g * (p + 1) + p * p) % 3) + 1]]

---------------------------------------------------------------------------
(* The notebooks' code cells, top to bottom.  line: first source line of   *)
(* the cell; stmts: the statements of the cell as shipped, in order, each  *)
(* with the names it reads and the names it assigns; sol: the statements   *)
(* of the solution of an exercise cell; after: the cell is presented as    *)
(* following training.  A cell that does not compile runs no statement.    *)

S(reads, binds) == [reads |-> reads, binds |-> binds]

Cell(line, kind, stmts) ==
    [line |-> line, kind |-> kind, stmts |-> stmts, sol |-> << >>, after |-> FALSE]

Exercise(line, kind, stmts, sol) ==
    [line |-> line, kind |-> kind, stmts |-> stmts, sol |-> sol, after |-> FALSE]

After(c) == [c EXCEPT !.after = TRUE]

\* for image_batch, label_batch in batches.take(1): ps = m.predict(image_batch);
\* first_image = ...; then the plot of the first image and its probabilities
PredictFirst(batches, m) == <<
    S({batches}, {"image_batch", "label_batch"}),
    S({m, "image_batch"}, {"ps"}),
    S({"image_batch"}, {"first_image"}),
    S({"plt"}, {"fig", "ax1", "ax2"}),
    S({"ax1", "first_image", "plt"}, {}),
    S({"ax1"}, {}),
    S({"ax2", "np", "ps"}, {}),
    S({"ax2"}, {}),
    S({"ax2", "np"}, {}),
    S({"ax2", "np"}, {}),
    S({"ax2"}, {}),
    S({"ax2"}, {}),
    S({"plt"}, {}) >>

\* for image_batch, label_batch in batches.take(1):
\*     loss, accuracy = m.evaluate(image_batch, label_batch)
\* and the two prints
EvaluateOne(batches, m) == <<
    S({batches}, {"image_batch", "label_batch"}),
    S({m, "image_batch", "label_batch"}, {"loss", "accuracy"}),
    S({"loss"}, {}),
    S({"accuracy"}, {}) >>

\* import logging; logger = tf.get_logger(); logger.setLevel(logging.ERROR)
ImportLogging == <<
    S({}, {"logging"}),
    S({"tf"}, {"logger"}),
    S({"logger", "logging"}, {}) >>

\* y = sigmoid_activation(...features, weights ... + bias); print('label:\n', y)
SingleLayer == <<
    S({"sigmoid_activation", "tf", "features", "weights", "bias"}, {"y"}),
    S({"y"}, {}) >>

IntroCells == <<
    Cell(97, "pip", <<S({}, {})>>),
    Cell(110, "import",
         <<S({}, {"warnings"}), S({"warnings"}, {}), S({}, {"np"}), S({}, {"tf"})>>),
    Cell(123, "import", ImportLogging),
    Cell(142, "plain", <<S({}, {}), S({"tf"}, {})>>),
    Cell(170, "data1",
         <<S({"tf"}, {}), S({"tf"}, {"features"}), S({"tf"}, {"weights"}),
           S({"tf"}, {"bias"}), S({"features"}, {}), S({"weights"}, {}),
           S({"bias"}, {})>>),
    Cell(219, "bind", <<S({}, {"sigmoid_activation"})>>),
    Exercise(255, "ex1", << >>, SingleLayer),
    Cell(306, "plain", <<S({"features"}, {}), S({"weights"}, {}), S({"bias"}, {})>>),
    Exercise(337, "ex2", << >>, SingleLayer),
    Cell(367, "plain", <<S({"weights"}, {})>>),
    Cell(426, "data2",
         <<S({"tf"}, {}), S({"tf"}, {"features"}), S({"features"}, {"n_input"}),
           S({}, {"n_hidden"}), S({}, {"n_output"}),
           S({"tf", "n_input", "n_hidden"}, {"W1"}),
           S({"tf", "n_hidden", "n_output"}, {"W2"}),
           S({"tf", "n_hidden"}, {"B1"}),
           S({"tf", "n_output"}, {"B2"})>>),
    Exercise(472, "ex3", << >>,
             <<S({"sigmoid_activation", "tf", "features", "W1", "W2", "B1", "B2"},
                 {"output"}),
               S({"output"}, {})>>),
    Cell(517, "nprand", <<S({"tf"}, {}), S({"np"}, {"a"}), S({"a"}, {}), S({"a"}, {})>>),
    Cell(540, "totensor", <<S({"tf", "a"}, {"b"}), S({"b"}, {})>>),
    Cell(559, "tonumpy", <<S({"b"}, {"c"}), S({"c"}, {}), S({"c"}, {})>>),
    Cell(589, "mul40", <<S({"b"}, {"b"}), S({"b"}, {})>>),
    Cell(609, "plain", <<S({"a"}, {})>>),
    Cell(627, "plain", <<S({"c"}, {})>>),
    Cell(645, "add1", <<S({"a"}, {"a"}), S({"a"}, {})>>),
    Cell(665, "plain", <<S({"b"}, {})>>),
    Cell(675, "plain", <<S({"c"}, {})>>) >>

TrainingCells == <<
    Cell(89, "pip", <<S({}, {})>>),
    Cell(100, "import", <<S({}, {"warnings"}), S({"warnings"}, {})>>),
    Cell(114, "import",
         <<S({}, {"np"}), S({}, {"plt"}), S({}, {"tf"}), S({}, {"tfds"}),
           S({"tfds"}, {})>>),
    Cell(131, "import", ImportLogging),
    Cell(150, "plain", <<S({}, {}), S({"tf"}, {}), S({"tf"}, {}), S({"tf"}, {})>>),
    Cell(180, "load", <<S({"tfds"}, {"training_set", "dataset_info"})>>),
    Cell(203, "pipeline",
         <<S({}, {"normalize"}),
           S({"dataset_info"}, {"num_training_examples"}),
           S({}, {"batch_size"}),
           S({"training_set", "num_training_examples", "batch_size", "normalize", "tf"},
             {"training_batches"})>>),
    Cell(235, "model", <<S({"tf"}, {"model"})>>),
    Cell(275, "compile", <<S({"model"}, {})>>),
    Cell(306, "evaluate", EvaluateOne("training_batches", "model")),
    Cell(339, "fit",
         <<S({}, {"EPOCHS"}), S({"model", "training_batches", "EPOCHS"}, {"history"})>>),
    After(Cell(370, "predict", PredictFirst("training_batches", "model"))),
    After(Cell(411, "evaluate", EvaluateOne("training_batches", "model"))),
    Exercise(442, "exA", <<S({"loss"}, {}), S({"accuracy"}, {})>>,
             <<S({"tf"}, {"my_model"}), S({"my_model"}, {})>>
                 \o EvaluateOne("training_batches", "my_model")),
    After(Exercise(473, "exB", <<S({"loss"}, {}), S({"accuracy"}, {})>>,
             <<S({}, {"EPOCHS"}),
               S({"my_model", "training_batches", "EPOCHS"}, {"history"})>>
                 \o EvaluateOne("training_batches", "my_model"))),
    After(Exercise(504, "exC", << >>, PredictFirst("training_batches", "my_model"))),
    Cell(550, "autodiff",
         <<S({"tf"}, {}), S({"tf"}, {"x"}), S({"tf", "x"}, {"g", "y"}),
           S({"g", "y", "x"}, {"dy_dx"}), S({"x"}, {"true_grad"}),
           S({"dy_dx"}, {}), S({"true_grad"}, {}),
           S({"np", "true_grad", "dy_dx"}, {})>>),
    Cell(603, "plain", << >>) >>

TransferCells == <<
    Cell(751, "pip", <<S({}, {})>>),
    Cell(763, "import", <<S({}, {"warnings"}), S({"warnings"}, {})>>),
    Cell(777, "import",
         <<S({}, {"time"}), S({}, {"np"}), S({}, {"plt"}), S({}, {"tf"}),
           S({}, {"hub"}), S({}, {"tfds"}), S({"tfds"}, {})>>),
    Cell(796, "import", ImportLogging),
    Cell(815, "plain", <<S({}, {}), S({"tf"}, {}), S({"tf"}, {}), S({"tf"}, {})>>),
    Cell(845, "load",
         <<S({}, {"train_split"}), S({}, {"test_val_split"}),
           S({"tfds"}, {"splits"}),
           S({"tfds", "splits"},
             {"training_set", "validation_set", "test_set", "dataset_info"})>>),
    Cell(877, "plain", <<S({"dataset_info"}, {})>>),
    Cell(894, "bind",
         <<S({"dataset_info"}, {"num_classes"}),
           S({"dataset_info"}, {"total_num_examples"}),
           S({}, {}), S({"num_classes"}, {}), S({"total_num_examples"}, {})>>),
    Cell(922, "bind", <<S({}, {"class_names"})>>),
    Cell(939, "bind",
         <<S({"training_set"}, {"image", "label"}),
           S({"plt", "image"}, {}), S({"plt"}, {}), S({"label"}, {}),
           S({"class_names", "label"}, {})>>),
    Cell(976, "pipeline",
         <<S({}, {"batch_size"}), S({}, {"image_size"}),
           S({"total_num_examples", "train_split"}, {"num_training_examples"}),
           S({}, {"format_image"}),
           S({"training_set", "num_training_examples", "format_image", "batch_size",
              "tf", "image_size"}, {"training_batches"}),
           S({"validation_set", "format_image", "batch_size", "tf", "image_size"},
             {"validation_batches"}),
           S({"test_set", "format_image", "batch_size", "tf", "image_size"},
             {"testing_batches"})>>),
    Cell(1021, "extractor",
         <<S({}, {"URL"}), S({"hub", "URL", "image_size"}, {"feature_extractor"})>>),
    Cell(1046, "freeze", <<S({"feature_extractor"}, {})>>),
    Cell(1075, "model", <<S({"tf", "feature_extractor"}, {"model"}), S({"model"}, {})>>),
    Cell(1111, "plain", <<S({"tf"}, {})>>),
    Cell(1178, "plain", << >>),
    Exercise(1241, "exTrain", << >>,
             <<S({"model"}, {}), S({}, {"EPOCHS"}),
               S({"model", "training_batches", "validation_batches", "EPOCHS"},
                 {"history"})>>),
    After(Cell(1268, "predict",
         <<S({"testing_batches"}, {"image_batch", "label_batch"}),
           S({"model", "image_batch"}, {"ps"}),
           S({"image_batch"}, {"images"}),
           S({"label_batch"}, {"labels"}),
           S({"plt"}, {}),
           S({}, {"n"}),
           S({"plt", "n"}, {}),
           S({"plt", "images", "n"}, {}),
           S({"np", "ps", "labels", "n"}, {"color"}),
           S({"plt", "class_names", "np", "ps", "n", "color"}, {}),
           S({"plt"}, {})>>)),
    Cell(1292, "plain", << >>) >>

Notebooks == {"intro", "training", "transfer"}

\* the cells with the logging cell ahead of the import cell
CellsLoggingFirst ==
    LET c == IF nb = "intro" THEN IntroCells
             ELSE IF nb = "training" THEN TrainingCells
             ELSE TransferCells
        i == CHOOSE j \in 1..Len(c) : c[j].stmts = ImportLogging
    IN  [j \in 1..Len(c) |-> IF j = i THEN c[i - 1] ELSE IF j = i - 1 THEN c[i] ELSE c[j]]

\* the cells with the fit cell ahead of the cell that evaluates before training
CellsFitFirst ==
    LET c == IF nb = "intro" THEN IntroCells
             ELSE IF nb = "training" THEN TrainingCells
             ELSE TransferCells
        i == IF nb = "training" THEN CHOOSE j \in 1..Len(c) : c[j].kind = "fit" ELSE 2
    IN  [j \in 1..Len(c) |-> IF j = i THEN c[i - 1] ELSE IF j = i - 1 THEN c[i] ELSE c[j]]

\* the code cells of the notebook the kernel runs, in the order of the file
Cells ==
    IF nb = "intro" THEN IntroCells
    ELSE IF nb = "training" THEN TrainingCells
    ELSE TransferCells

NCells == Len(Cells)

ExerciseKinds == {"ex1", "ex2", "ex3", "exA", "exB", "exC", "exTrain"}

\* the statements cell k holds when it runs
Stmts(k) ==
    IF learner /\ Cells[k].kind \in ExerciseKinds THEN Cells[k].sol ELSE Cells[k].stmts

\* the names the first n statements of cell k assign
BoundBy(k, n) == UNION {Stmts(k)[i].binds : i \in 1..n}

\* the names the code of cell k assigns
Binds(k) == BoundBy(k, Len(Stmts(k)))

\* the names the code of cell k reads that no earlier statement of it assigns
Reads(k) ==
    UNION {Stmts(k)[i].reads \ BoundBy(k, i - 1) : i \in 1..Len(Stmts(k))}

\* statements i.. of the list run one after the other until one reads a name
\* that is not bound: the number of statements that ran
RECURSIVE RanFrom(_, _, _)
RanFrom(stmts, i, bound) ==
    IF i > Len(stmts) THEN Len(stmts)
    ELSE IF ~(stmts[i].reads \subseteq bound) THEN i - 1
    ELSE RanFrom(stmts, i + 1, bound \cup stmts[i].binds)

\* the number of statements of cell k that run in the current namespace
Ran(k) == RanFrom(Stmts(k), 1, DOMAIN env)

Bound(names) == names \subseteq DOMAIN env

---------------------------------------------------------------------------
(* Running a cell *)

Idle ==
    [cell |-> 0, model |-> 0, data |-> 0, epochs |-> 0, epoch |-> 0, batch |-> 0, g |-> 0,
     emitted |-> {}, ready |-> << >>, cur |-> << >>, made |-> << >>, got |-> << >>,
     last |-> << >>]

Static == UNCHANGED <<nb, learner, stream, total, slices>>

\* cell k may run now: it is the next cell of the run, or the run is over
\* and the user executes it again
Pick(k) ==
    /\ ~halted
    /\ fit = Idle
    /\ k \in 1..NCells
    /\ \/ pc = k
       \/ pc = NCells + 1 /\ reruns < MaxReruns

Advance(k) ==
    /\ pc' = IF pc = k THEN k + 1 ELSE pc
    /\ reruns' = IF pc = k THEN reruns ELSE reruns + 1
    /\ halted' = halted

\* name n bound to reference r
Bind(e, n, r) == [x \in DOMAIN e \cup {n} |-> IF x = n THEN r ELSE e[x]]

\* every name of the set bound to an object that is not modelled
BindOpaque(e, names) == [x \in DOMAIN e \cup names |-> IF x \in names THEN 0 ELSE e[x]]

\* names[i] bound to the i-th object appended to a heap of length n
BindNew(e, n, names) ==
    [x \in DOMAIN e \cup {names[i] : i \in 1..Len(names)} |->
        IF \E i \in 1..Len(names) : names[i] = x
        THEN n + (CHOOSE i \in 1..Len(names) : names[i] = x)
        ELSE e[x]]

Entry(op, k, fits) == [op |-> op, line |-> Cells[k].line, after |-> Cells[k].after, fits |-> fits]

RaiseSwallowed(exc) == "none"

\* an exception no code of the cell catches ends the cell with that error
Raise(exc) == exc

\* a statement of cell k raises exc: what the statements before it did stays,
\* namespace e, objects h, generator r and operations l
FailAfter(k, exc, e, h, r, l) ==
    /\ err' = Raise(exc)
    /\ Advance(k)
    /\ env' = e
    /\ heap' = h
    /\ rng' = r
    /\ log' = l
    /\ UNCHANGED <<nprng, fit>>

\* the cell fails with exception exc in its first statement, or does not compile
Fail(k, exc) == FailAfter(k, exc, env, heap, rng, log)

\* a statement of cell k reads a name that is not bound; the statements
\* before it assigned values that are not modelled
FailPartial(k) ==
    FailAfter(k, "NameError", BindOpaque(env, BoundBy(k, Ran(k))), heap, rng, log)

\* every statement of cell k can run
Runs(k) == Ran(k) = Len(Stmts(k))

\* cells that only print or display
RunPlain(k) ==
    /\ Pick(k)
    /\ Cells[k].kind \in {"plain", "pip"}
    /\ Static
    /\ IF Bound(Reads(k))
       THEN /\ log' = IF Cells[k].kind = "pip" THEN Append(log, Entry("setup", k, 0)) ELSE log
            /\ err' = "none"
            /\ Advance(k)
            /\ UNCHANGED <<env, heap, rng, nprng, fit>>
       ELSE Fail(k, "NameError")

\* imports, function definitions and assignments of values not modelled
RunBind(k) ==
    /\ Pick(k)
    /\ Cells[k].kind \in {"bind", "import"}
    /\ Static
    /\ IF Runs(k)
       THEN /\ env' = BindOpaque(env, Binds(k))
            /\ log' = IF Cells[k].kind = "import" THEN Append(log, Entry("setup", k, 0)) ELSE log
            /\ err' = "none"
            /\ Advance(k)
            /\ UNCHANGED <<heap, rng, nprng, fit>>
       ELSE FailPartial(k)

\* an exercise cell as shipped: "y = " does not compile; the others hold a
\* comment, or a comment and two prints
ExShipped(k) ==
    /\ Pick(k)
    /\ ~learner
    /\ Cells[k].kind \in ExerciseKinds
    /\ Static
    /\ IF Cells[k].kind \in {"ex1", "ex2", "ex3"} THEN Fail(k, "SyntaxError")
       ELSE IF Bound(Reads(k))
       THEN /\ err' = "none"
            /\ Advance(k)
            /\ UNCHANGED <<env, heap, rng, nprng, fit, log>>
       ELSE Fail(k, "NameError")

\* Run All stops at the first cell that fails
Abort ==
    /\ ~halted
    /\ err # "none"
    /\ reruns = 0
    /\ pc <= NCells
    /\ halted' = TRUE
    /\ Static
    /\ UNCHANGED <<pc, reruns, env, heap, rng, nprng, fit, log, err>>

---------------------------------------------------------------------------
(* Part 1: Introduction to Neural Networks *)

\* single-layer data cell
Data1(k) ==
    /\ Pick(k)
    /\ Cells[k].kind = "data1"
    /\ Static
    /\ IF Bound(Reads(k))
       THEN LET r0 == SetSeed(rng, SEED)
                features == Normal(r0, <<1, 5>>)
                r1 == Bump(r0)
                weights == Normal(r1, <<1, 5>>)
                r2 == Bump(r1)
                bias == Normal(r2, <<1, 1>>)
            IN  /\ heap' = heap \o <<features, weights, bias>>
                /\ env' = BindNew(env, Len(heap), <<"features", "weights", "bias">>)
                /\ rng' = Bump(r2)
                /\ err' = "none"
                /\ Advance(k)
                /\ UNCHANGED <<nprng, fit, log>>
       ELSE Fail(k, "NameError")

\* the names a single-layer expression reads before it multiplies: the
\* product is computed, and may fail, before bias is read
Operands == {"sigmoid_activation", "tf", "features", "weights"}

\* y = sigmoid_activation(tf.reduce_sum(tf.multiply(features, weights)) + bias)
Ex1(k) ==
    /\ Pick(k)
    /\ learner
    /\ Cells[k].kind = "ex1"
    /\ Static
    /\ IF ~Bound(Operands) THEN Fail(k, "NameError")
       ELSE LET f == heap[env["features"]]
                w == heap[env["weights"]]
                b == heap[env["bias"]]
            IN  IF f.shape # w.shape THEN Fail(k, "InvalidArgumentError")
                ELSE IF ~Bound({"bias"}) THEN Fail(k, "NameError")
                ELSE /\ heap' = Append(heap, sigmoid_activation(Add(ReduceSum(Multiply(f, w)), b)))
                     /\ env' = Bind(env, "y", Len(heap) + 1)
                     /\ err' = "none"
                     /\ Advance(k)
                     /\ UNCHANGED <<rng, nprng, fit, log>>

TransposeStored(h, r, transpose) ==
    [heap |-> IF transpose THEN [h EXCEPT ![r] = Transpose(h[r])] ELSE h,
     t |-> IF transpose THEN Transpose(h[r]) ELSE h[r]]

\* the operand tf.matmul multiplies with: transposed for the multiplication
\* only, the tensor itself stays as it is
TransposeArg(h, r, transpose) ==
    [heap |-> h, t |-> IF transpose THEN Transpose(h[r]) ELSE h[r]]

\* the learner's first try at the matrix-multiplication exercise, the one the
\* text shows with its traceback:
\* y = sigmoid_activation(tf.matmul(features, weights) + bias)
Attempt(k) ==
    /\ Pick(k)
    /\ learner
    /\ Cells[k].kind = "ex2"
    /\ Static
    /\ IF ~Bound(Operands) THEN Fail(k, "NameError")
       ELSE LET f == heap[env["features"]]
                arg == TransposeArg(heap, env["weights"], FALSE)
                b == heap[env["bias"]]
            IN  IF ~MatmulOk(f, arg.t) THEN Fail(k, "InvalidArgumentError")
                ELSE IF ~Bound({"bias"}) THEN Fail(k, "NameError")
                ELSE /\ heap' = Append(arg.heap, sigmoid_activation(Add(Matmul(f, arg.t), b)))
                     /\ env' = Bind(env, "y", Len(heap) + 1)
                     /\ err' = "none"
                     /\ Advance(k)
                     /\ UNCHANGED <<rng, nprng, fit, log>>

\* y = sigmoid_activation(tf.matmul(features, weights, transpose_b=True) + bias)
Ex2(k) ==
    /\ Pick(k)
    /\ learner
    /\ Cells[k].kind = "ex2"
    /\ Static
    /\ IF ~Bound(Operands) THEN Fail(k, "NameError")
       ELSE LET f == heap[env["features"]]
                arg == TransposeArg(heap, env["weights"], TRUE)
                b == heap[env["bias"]]
            IN  IF ~MatmulOk(f, arg.t) THEN Fail(k, "InvalidArgumentError")
                ELSE IF ~Bound({"bias"}) THEN Fail(k, "NameError")
                ELSE /\ heap' = Append(arg.heap, sigmoid_activation(Add(Matmul(f, arg.t), b)))
                     /\ env' = Bind(env, "y", Len(heap) + 1)
                     /\ err' = "none"
                     /\ Advance(k)
                     /\ UNCHANGED <<rng, nprng, fit, log>>

IntObj(n) == [kind |-> "int", val |-> n]

\* multi-layer data cell
Data2(k) ==
    /\ Pick(k)
    /\ Cells[k].kind = "data2"
    /\ Static
    /\ IF Bound(Reads(k))
       THEN LET r0 == SetSeed(rng, SEED)
                features == Normal(r0, <<1, 3>>)
                n_input == features.shape[2]
                n_hidden == 2
                n_output == 1
                r1 == Bump(r0)
                W1 == Normal(r1, <<n_input, n_hidden>>)
                r2 == Bump(r1)
                W2 == Normal(r2, <<n_hidden, n_output>>)
                r3 == Bump(r2)
                B1 == Normal(r3, <<1, n_hidden>>)
                r4 == Bump(r3)
                B2 == Normal(r4, <<1, n_output>>)
            IN  /\ heap' = heap \o <<features, IntObj(n_input), IntObj(n_hidden),
                                     IntObj(n_output), W1, W2, B1, B2>>
                /\ env' = BindNew(env, Len(heap),
                                  <<"features", "n_input", "n_hidden", "n_output",
                                    "W1", "W2", "B1", "B2">>)
                /\ rng' = Bump(r4)
                /\ err' = "none"
                /\ Advance(k)
                /\ UNCHANGED <<nprng, fit, log>>
       ELSE Fail(k, "NameError")

\* output = sigmoid_activation(tf.matmul(sigmoid_activation(
\*              tf.matmul(features, W1) + B1), W2) + B2)
Ex3(k) ==
    /\ Pick(k)
    /\ learner
    /\ Cells[k].kind = "ex3"
    /\ Static
    /\ IF ~Bound({"sigmoid_activation", "tf", "features", "W1"}) THEN Fail(k, "NameError")
       ELSE LET f == heap[env["features"]]
                W1 == heap[env["W1"]]
                W2 == heap[env["W2"]]
                B1 == heap[env["B1"]]
                B2 == heap[env["B2"]]
            IN  IF ~MatmulOk(f, W1) THEN Fail(k, "InvalidArgumentError")
                ELSE IF ~Bound({"B1", "W2"}) THEN Fail(k, "NameError")
                ELSE LET h == sigmoid_activation(Add(Matmul(f, W1), B1))
                     IN  IF ~MatmulOk(h, W2) THEN Fail(k, "InvalidArgumentError")
                         ELSE IF ~Bound({"B2"}) THEN Fail(k, "NameError")
                         ELSE
                         /\ heap' = Append(heap, sigmoid_activation(Add(Matmul(h, W2), B2)))
                         /\ env' = Bind(env, "output", Len(heap) + 1)
                         /\ err' = "none"
                         /\ Advance(k)
                         /\ UNCHANGED <<rng, nprng, fit, log>>

\* tf.random.set_seed(7); a = np.random.rand(4,3)
NpRand(k) ==
    /\ Pick(k)
    /\ Cells[k].kind = "nprand"
    /\ Static
    /\ IF Runs(k)
       THEN /\ rng' = SetSeed(rng, SEED)
            /\ heap' = Append(heap, NpRandValues(nprng, <<4, 3>>))
            /\ nprng' = NpAdvance(nprng, <<4, 3>>)
            /\ env' = Bind(env, "a", Len(heap) + 1)
            /\ err' = "none"
            /\ Advance(k)
            /\ UNCHANGED <<fit, log>>
       ELSE IF Ran(k) = 0 THEN Fail(k, "NameError")
       ELSE FailAfter(k, "NameError", env, heap, SetSeed(rng, SEED), log)

\* a conversion between ndarray and tensor: the result has the values of the
\* source, in memory of its own or in the memory of the source
Convert(k, kind, from, to) ==
    /\ Pick(k)
    /\ Cells[k].kind = kind
    /\ Static
    /\ IF Bound(Reads(k))
       THEN /\ \E share \in BOOLEAN :
                IF share
                THEN /\ env' = Bind(env, to, env[from])
                     /\ heap' = heap
                ELSE /\ env' = Bind(env, to, Len(heap) + 1)
                     /\ heap' = Append(heap, heap[env[from]])
            /\ err' = "none"
            /\ Advance(k)
            /\ UNCHANGED <<rng, nprng, fit, log>>
       ELSE Fail(k, "NameError")

\* b = tf.convert_to_tensor(a)
ToTensor(k) == Convert(k, "totensor", "a", "b")

\* c = b.numpy()
ToNumpy(k) == Convert(k, "tonumpy", "b", "c")

InPlace(h, r, val) == [heap |-> [h EXCEPT ![r] = val], ref |-> r]

\* the value of an expression over the object at r is a new object
NewObject(h, r, val) == [heap |-> Append(h, val), ref |-> Len(h) + 1]

\* b = b * 40
Mul40(k) ==
    /\ Pick(k)
    /\ Cells[k].kind = "mul40"
    /\ Static
    /\ IF Bound(Reads(k))
       THEN LET res == NewObject(heap, env["b"], Times(40, heap[env["b"]]))
            IN  /\ heap' = res.heap
                /\ env' = Bind(env, "b", res.ref)
                /\ err' = "none"
                /\ Advance(k)
                /\ UNCHANGED <<rng, nprng, fit, log>>
       ELSE Fail(k, "NameError")

\* a = a + 1
Add1(k) ==
    /\ Pick(k)
    /\ Cells[k].kind = "add1"
    /\ Static
    /\ IF Bound(Reads(k))
       THEN LET res == NewObject(heap, env["a"], Add(heap[env["a"]], Scalar(Scale)))
            IN  /\ heap' = res.heap
                /\ env' = Bind(env, "a", res.ref)
                /\ err' = "none"
                /\ Advance(k)
                /\ UNCHANGED <<rng, nprng, fit, log>>
       ELSE Fail(k, "NameError")

---------------------------------------------------------------------------
(* tf.GradientTape: records the operations on watched tensors while it is  *)
(* open; gradient() runs the recorded operations backwards, once.          *)

NoneObj == [kind |-> "none"]

TapeNew ==
    [kind |-> "tape", open |-> TRUE, watched |-> {}, ops |-> << >>,
     events |-> <<"enter">>, used |-> FALSE]

TapeWatchNothing(t, r) == [t EXCEPT !.events = Append(@, "watch")]

\* g.watch(x)
TapeWatch(t, r) ==
    IF t.open THEN [t EXCEPT !.watched = @ \cup {r}, !.events = Append(@, "watch")] ELSE t

\* an operation with input src and output dst is executed
TapeRecord(t, op, src, dst) ==
    IF t.open /\ src \in t.watched
    THEN [t EXCEPT !.ops = Append(@, [op |-> op, src |-> src, dst |-> dst]),
                   !.watched = @ \cup {dst},
                   !.events = Append(@, "record")]
    ELSE t

\* the with block is left
TapeExit(t) == [t EXCEPT !.open = FALSE, !.events = Append(@, "exit")]

OnesLike(a) == Tensor(a.shape, [i \in 1..Len(a.v) |-> Scale])

PowGradWrong(x, up) == Tensor(x.shape, [i \in 1..Len(x.v) |-> FixMul(up.v[i], FixMul(2 * x.v[i], x.v[i]))])

\* gradient of x ** 2 with upstream gradient up: up * 2 * x ** (2 - 1)
PowGrad(x, up) == Tensor(x.shape, [i \in 1..Len(x.v) |-> FixMul(up.v[i], 2 * x.v[i])])

\* the recorded operations 1..i run backwards; gr: reference -> gradient so far
RECURSIVE Backprop(_, _, _, _)
Backprop(h, ops, i, gr) ==
    IF i = 0 THEN gr
    ELSE LET o == ops[i]
         IN  IF o.dst \in DOMAIN gr
             THEN LET c == PowGrad(h[o.src], gr[o.dst])
                      g2 == [r \in DOMAIN gr \cup {o.src} |->
                                IF r = o.src
                                THEN (IF r \in DOMAIN gr THEN Add(gr[r], c) ELSE c)
                                ELSE gr[r]]
                  IN  Backprop(h, ops, i - 1, g2)
             ELSE Backprop(h, ops, i - 1, gr)

\* g.gradient(target, source): [tape, exc, grad]; grad is None when no
\* recorded operation connects source to target
TapeGradient(t, h, target, source) ==
    IF t.used
    THEN [tape |-> t, exc |-> "RuntimeError", grad |-> NoneObj]
    ELSE LET gr == Backprop(h, t.ops, Len(t.ops), [r \in {target} |-> OnesLike(h[target])])
         IN  [tape |-> [t EXCEPT !.used = TRUE, !.events = Append(@, "gradient")],
              exc |-> "none",
              grad |-> IF source \in DOMAIN gr THEN gr[source] ELSE NoneObj]

\* an operation executed inside the block reads variable r: a trainable
\* variable is watched from then on, without a call of watch
TapeReadVariable(t, r, trainable) ==
    IF t.open /\ trainable
    THEN [t EXCEPT !.watched = @ \cup {r}, !.events = Append(@, "auto")]
    ELSE t

\* the references the recorded operations 1..i connect to those of the set:
\* the values with respect to which the tape can give a gradient
RECURSIVE Reaches(_, _, _)
Reaches(ops, i, set) ==
    IF i = 0 THEN set
    ELSE Reaches(ops, i - 1, IF ops[i].dst \in set THEN set \cup {ops[i].src} ELSE set)

---------------------------------------------------------------------------
(* Datasets, layers and models *)

Dataset(n) == [kind |-> "dataset", n |-> n]

\* dataset.[cache().][shuffle(buffer).]batch(batch_size).prefetch(1); buffer 0:
\* the pipeline has no shuffle stage (shuffle itself rejects a buffer of 0)
Batches(src, n, cache, buffer) ==
    [kind |-> "batches", src |-> src, n |-> n, cache |-> cache, cached |-> 0,
     shuffle |-> buffer, batch |-> BatchSize, prefetch |-> 1]

Elems(b) == {b[i] : i \in 1..Len(b)}

\* the number of times example e occurs in the batches bs
Count(e, bs) ==
    Cardinality({ij \in (1..Len(bs)) \X (1..BatchSize) :
                    ij[2] <= Len(bs[ij[1]]) /\ bs[ij[1]][ij[2]] = e})

\* what a pass delivered: how often each example, and in how many batches
Delivered(p, bs) == [count |-> [e \in 1..p.n |-> Count(e, bs)], batches |-> Len(bs)]

\* the examples a pass over the pipeline reads: the source, or the cache once
\* a complete pass has filled it (the cache keeps the examples in order)
Upstream(p) == 1..(IF p.cache /\ p.cached > 0 THEN p.cached ELSE p.n)

ShuffleWithReplacement(p, emitted) ==
    {e \in Upstream(p) : Cardinality({x \in Upstream(p) : x < e}) < p.shuffle}

\* shuffle(buffer): the examples the shuffle can output next are those in its
\* buffer, the first `buffer` examples read and not yet output; without a
\* shuffle the next example is the first one not yet output
ShuffleBuffer(p, emitted) ==
    LET rest == Upstream(p) \ emitted
        size == IF p.shuffle = 0 THEN 1 ELSE p.shuffle
    IN  {e \in rest : Cardinality({x \in rest : x < e}) < size}

\* batch(batch_size): the batches the pipeline can produce next, each of k
\* examples, or fewer when the pass ends (the remainder is not dropped)
RECURSIVE NextBatches(_, _, _)
NextBatches(p, emitted, k) ==
    IF k = 0 \/ ShuffleBuffer(p, emitted) = {} THEN {<< >>}
    ELSE UNION {{<<e>> \o t : t \in NextBatches(p, emitted \cup {e}, k - 1)} :
                    e \in ShuffleBuffer(p, emitted)}

\* a fit call on model m and pipeline d begins its first pass
FitCall(k, m, d, e, g) ==
    [cell |-> k, model |-> m, data |-> d, epochs |-> e, epoch |-> 1, batch |-> 1, g |-> g,
     emitted |-> {}, ready |-> << >>, cur |-> << >>, made |-> << >>, got |-> << >>,
     last |-> << >>]

NumBatches(p) == (p.n + p.batch - 1) \div p.batch

\* trainable: the layer's attribute; variable_trainable: the trainable
\* property of the layer's variables, fixed when they are created
Layer(name, trainable, w) ==
    [kind |-> "layer", name |-> name, trainable |-> trainable, variable_trainable |-> TRUE,
     w |-> w]

\* a Dense layer: kernel drawn by the initializer, bias zero; trainable
Dense(name, r) == Layer(name, TRUE, <<Draw(r, 0), 0>>)

\* tape: the tape of the model's last training step
Model(layers) ==
    [kind |-> "model", layers |-> layers, compiled |-> FALSE, fits |-> 0, steps |-> 0,
     tape |-> NoneObj]

\* weights and biases of the MobileNet feature extractor, as downloaded
Pretrained == <<3000, -2000>>

AllLayers(h, m) == {h[m].layers[i] : i \in 1..Len(h[m].layers)}

TrainEveryLayer(h, m) == AllLayers(h, m)

\* the layers whose variables a training step updates
TrainableLayers(h, m) == {l \in AllLayers(h, m) : h[l].trainable}

\* the forward pass of a training step from layer i on, under tape t: each
\* layer reads its variables and its operation is executed
RECURSIVE Forward(_, _, _, _)
Forward(t, h, m, i) ==
    IF i > Len(h[m].layers) THEN t
    ELSE LET l == h[m].layers[i]
             t1 == TapeReadVariable(t, l, h[l].variable_trainable /\ h[l].w # << >>)
         IN  Forward(TapeRecord(t1, "layer", l, m), h, m, i + 1)

\* the tape of a training step: the forward pass runs inside the block, the
\* gradient of the loss is asked for once after it
StepTape(h, m) ==
    LET t == TapeExit(Forward(TapeNew, h, m, 1))
    IN  [t EXCEPT !.used = TRUE, !.events = Append(@, "gradient")]

\* one optimizer step on the model at m; g: the step the batch's gradient
\* gives.  The gradient is asked for the variables of the trainable layers
\* (model.trainable_weights) and is applied where the tape can give one
TrainStep(h, m, g) ==
    LET t == StepTape(h, m)
        given == Reaches(t.ops, Len(t.ops), {m})
    IN  [r \in 1..Len(h) |->
            IF r = m THEN [h[m] EXCEPT !.steps = @ + 1, !.tape = t]
            ELSE IF r \in TrainableLayers(h, m) /\ r \in given
                 THEN [h[r] EXCEPT !.w = [i \in 1..Len(h[r].w) |-> h[r].w[i] - g]]
                 ELSE h[r]]

NotTrained(h, m) == h

\* the model at m after a fit call returned
Trained(h, m) == [h EXCEPT ![m].fits = @ + 1]

\* the weights of the model's layers, in order
Weights(h, m) == [i \in 1..Len(h[m].layers) |-> h[h[m].layers[i]].w]

\* a loss or accuracy value: determined by the weights it was computed with
Metric(h, m, what) ==
    [kind |-> "metric", what |-> what, w |-> Weights(h, m), steps |-> h[m].steps,
     fits |-> h[m].fits]

\* the sizes of the subsplits [60, 20, 20] of n examples
\* slices of the datasets of the small runs: one stands for twenty hundredths
ScaledSlices == Percent \div 20

\* the slices [lo, hi) a subsplit with cumulated weights from..to percent holds
SliceBounds(from, to) == [lo |-> (from * slices) \div Percent, hi |-> (to * slices) \div Percent]

\* how many of n examples fall in the slices [lo, hi): example i is in slice
\* i mod slices
InSlices(n, b) ==
    LET q == n \div slices
        r == n % slices
        part == IF r <= b.lo THEN 0 ELSE IF r >= b.hi THEN b.hi - b.lo ELSE r - b.lo
    IN  q * (b.hi - b.lo) + part

SubsplitInclusive(n, weights) ==
    [i \in 1..Len(weights) |->
        LET from == SumSeq(SubSeq(weights, 1, i - 1))
            b == SliceBounds(from, from + weights[i])
        IN  InSlices(n, [lo |-> b.lo, hi |-> b.hi + 1])]

\* the sizes of the subsplits of n examples with the given weights in percent
SubsplitSizes(n, weights) ==
    [i \in 1..Len(weights) |->
        LET from == SumSeq(SubSeq(weights, 1, i - 1))
        IN  InSlices(n, SliceBounds(from, from + weights[i]))]

---------------------------------------------------------------------------
(* Part 3 and Part 8: load, pipeline, model, compile, evaluate, fit, predict *)

\* tfds.load
Load(k) ==
    /\ Pick(k)
    /\ Cells[k].kind = "load"
    /\ Static
    /\ IF ~Runs(k) THEN FailPartial(k)
       ELSE /\ IF nb = "training"
               THEN /\ heap' = Append(heap, Dataset(total))
                    /\ env' = Bind(BindOpaque(env, {"dataset_info"}), "training_set", Len(heap) + 1)
               ELSE LET sz == SubsplitSizes(total, <<60, 20, 20>>)
                    IN  /\ heap' = heap \o <<Dataset(sz[1]), Dataset(sz[2]), Dataset(sz[3])>>
                        /\ env' = BindNew(BindOpaque(env, Binds(k)), Len(heap),
                                          <<"training_set", "validation_set", "test_set">>)
            /\ log' = Append(log, Entry("load", k, 0))
            /\ err' = "none"
            /\ Advance(k)
            /\ UNCHANGED <<rng, nprng, fit>>

\* the input pipelines.  The statements before the first pipeline assign
\* values that are not modelled; shuffle rejects a buffer of 0 examples; each
\* pipeline is built when its statement runs.
Pipeline(k) ==
    /\ Pick(k)
    /\ Cells[k].kind = "pipeline"
    /\ Static
    /\ LET first == IF nb = "training" THEN 4 ELSE 5
           num_training_examples == IF nb = "training" THEN total ELSE (total * 60) \div 100
           buffer == num_training_examples \div 4
           n == Ran(k)
           e0 == BindOpaque(env, BoundBy(k, first - 1))
       IN  IF n < first - 1 \/ "training_set" \notin DOMAIN env THEN FailPartial(k)
           ELSE IF buffer = 0 THEN FailAfter(k, "InvalidArgumentError", e0, heap, rng, log)
           ELSE IF n < first THEN FailPartial(k)
           ELSE LET tr == env["training_set"]
                    h1 == Append(heap, Batches(tr, heap[tr].n, nb = "training", buffer))
                    e1 == Bind(e0, "training_batches", Len(h1))
                IN  IF nb = "training"
                    THEN /\ heap' = h1
                         /\ env' = e1
                         /\ log' = Append(log, Entry("pipeline", k, 0))
                         /\ err' = "none"
                         /\ Advance(k)
                         /\ UNCHANGED <<rng, nprng, fit>>
                    ELSE IF n = first THEN FailAfter(k, "NameError", e1, h1, rng, log)
                    ELSE LET va == env["validation_set"]
                             h2 == Append(h1, Batches(va, heap[va].n, FALSE, 0))
                             e2 == Bind(e1, "validation_batches", Len(h2))
                         IN  IF n = first + 1 THEN FailAfter(k, "NameError", e2, h2, rng, log)
                             ELSE LET te == env["test_set"]
                                  IN  /\ heap' = Append(h2, Batches(te, heap[te].n, FALSE, 0))
                                      /\ env' = Bind(e2, "testing_batches", Len(h2) + 1)
                                      /\ log' = Append(log, Entry("pipeline", k, 0))
                                      /\ err' = "none"
                                      /\ Advance(k)
                                      /\ UNCHANGED <<rng, nprng, fit>>

\* feature_extractor = hub.KerasLayer(URL, input_shape=...)
Extractor(k) ==
    /\ Pick(k)
    /\ Cells[k].kind = "extractor"
    /\ Static
    /\ IF ~Runs(k) THEN FailPartial(k)
       ELSE /\ \E t \in BOOLEAN : heap' = Append(heap, Layer("feature_extractor", t, Pretrained))
            /\ env' = Bind(BindOpaque(env, {"URL"}), "feature_extractor", Len(heap) + 1)
            /\ err' = "none"
            /\ Advance(k)
            /\ UNCHANGED <<rng, nprng, fit, log>>

\* layer.trainable = False
SetFrozen(h, l) == [h EXCEPT ![l].trainable = FALSE]

\* feature_extractor.trainable = False
Freeze(k) ==
    /\ Pick(k)
    /\ Cells[k].kind = "freeze"
    /\ Static
    /\ IF ~Bound(Reads(k)) THEN Fail(k, "NameError")
       ELSE /\ heap' = SetFrozen(heap, env["feature_extractor"])
            /\ err' = "none"
            /\ Advance(k)
            /\ UNCHANGED <<env, rng, nprng, fit, log>>

\* model = tf.keras.Sequential([...])
BuildModel(k) ==
    /\ Pick(k)
    /\ Cells[k].kind = "model"
    /\ Static
    /\ IF ~Bound(Reads(k)) THEN Fail(k, "NameError")
       ELSE /\ IF nb = "training"
               THEN LET r1 == Bump(rng)
                        r2 == Bump(r1)
                        n == Len(heap)
                    IN  /\ heap' = heap \o
                              <<Layer("flatten", TRUE, << >>), Dense("dense", rng),
                                Dense("dense_1", r1), Dense("dense_2", r2),
                                Model(<<n + 1, n + 2, n + 3, n + 4>>)>>
                        /\ env' = Bind(env, "model", n + 5)
                        /\ rng' = Bump(r2)
               ELSE LET n == Len(heap)
                    IN  /\ heap' = heap \o
                              <<Dense("dense", rng), Model(<<env["feature_extractor"], n + 1>>)>>
                        /\ env' = Bind(env, "model", n + 2)
                        /\ rng' = Bump(rng)
            /\ log' = Append(log, Entry("model", k, 0))
            /\ err' = "none"
            /\ Advance(k)
            /\ UNCHANGED <<nprng, fit>>

\* model.compile(optimizer='adam', loss=..., metrics=['accuracy'])
Compile(k) ==
    /\ Pick(k)
    /\ Cells[k].kind = "compile"
    /\ Static
    /\ IF ~Bound(Reads(k)) THEN Fail(k, "NameError")
       ELSE /\ heap' = [heap EXCEPT ![env["model"]].compiled = TRUE]
            /\ log' = Append(log, Entry("compile", k, heap[env["model"]].fits))
            /\ err' = "none"
            /\ Advance(k)
            /\ UNCHANGED <<env, rng, nprng, fit>>

\* loss, accuracy = model.evaluate(image_batch, label_batch) on one batch
Evaluate(k) ==
    /\ Pick(k)
    /\ Cells[k].kind = "evaluate"
    /\ Static
    /\ IF ~Runs(k) THEN FailPartial(k)
       ELSE LET m == env["model"]
            IN  IF ~heap[m].compiled
                THEN FailAfter(k, "RuntimeError", BindOpaque(env, BoundBy(k, 1)), heap, rng, log)
                ELSE /\ heap' = heap \o <<Metric(heap, m, "loss"), Metric(heap, m, "accuracy")>>
                     /\ env' = BindNew(BindOpaque(env, {"image_batch", "label_batch"}),
                                       Len(heap), <<"loss", "accuracy">>)
                     /\ log' = Append(log, Entry("evaluate", k, heap[m].fits))
                     /\ err' = "none"
                     /\ Advance(k)
                     /\ UNCHANGED <<rng, nprng, fit>>

\* ps = model.predict(image_batch) and the plot of the prediction
Predict(k) ==
    /\ Pick(k)
    /\ Cells[k].kind = "predict"
    /\ Static
    /\ IF Ran(k) < 2 THEN FailPartial(k)
       ELSE LET m == env["model"]
            IN  /\ heap' = Append(heap, Metric(heap, m, "ps"))
                /\ env' = Bind(BindOpaque(env, BoundBy(k, Ran(k))), "ps", Len(heap) + 1)
                /\ log' = Append(log, Entry("predict", k, heap[m].fits))
                /\ err' = IF Runs(k) THEN "none" ELSE Raise("NameError")
                /\ Advance(k)
                /\ UNCHANGED <<rng, nprng, fit>>

\* the call model.fit(training_batches, epochs = EPOCHS) begins
FitStart(k) ==
    /\ Pick(k)
    /\ Cells[k].kind = "fit"
    /\ Static
    /\ IF ~Runs(k) THEN FailPartial(k)
       ELSE LET m == env["model"]
            IN  IF ~heap[m].compiled
                THEN FailAfter(k, "RuntimeError", BindOpaque(env, {"EPOCHS"}), heap, rng, log)
                ELSE /\ \E g \in Grads :
                            fit' = FitCall(k, m, env["training_batches"], EPOCHS, g)
                     /\ env' = BindOpaque(env, {"EPOCHS"})
                     /\ UNCHANGED <<pc, reruns, halted, heap, rng, nprng, log, err>>

\* the learner's solution of Part 8: compile the model and fit it for a few epochs
ExTrainStart(k) ==
    /\ Pick(k)
    /\ learner
    /\ Cells[k].kind = "exTrain"
    /\ Static
    /\ IF Ran(k) = 0 THEN Fail(k, "NameError")
       ELSE IF ~Runs(k)
       THEN FailAfter(k, "NameError", BindOpaque(env, {"EPOCHS"}),
                      [heap EXCEPT ![env["model"]].compiled = TRUE], rng,
                      Append(log, Entry("compile", k, heap[env["model"]].fits)))
       ELSE LET m == env["model"]
            IN  /\ \E e \in 1..MaxLearnerEpochs, g \in Grads :
                       fit' = FitCall(k, m, env["training_batches"], e, g)
                /\ heap' = [heap EXCEPT ![m].compiled = TRUE]
                /\ env' = BindOpaque(env, {"EPOCHS"})
                /\ log' = Append(log, Entry("compile", k, heap[m].fits))
                /\ UNCHANGED <<pc, reruns, halted, rng, nprng, err>>

\* the number of examples the pipeline has read when those of the set were
\* output: the shuffle keeps its buffer full
ReadSoFar(p, emitted) ==
    LET want == Cardinality(emitted) + (IF p.shuffle = 0 THEN 0 ELSE p.shuffle)
        have == Cardinality(Upstream(p))
    IN  IF want > have THEN have ELSE want

DequeueKeep(q) == q

\* the consumer takes the batch at the head of the prefetch buffer
Dequeue(q) == Tail(q)

\* prefetch(1): the pipeline's thread produces the next batch of the pass
\* while the buffer has room, and the cache records what was read
Prefetch ==
    /\ fit # Idle
    /\ fit.epoch <= fit.epochs
    /\ Static
    /\ LET p == heap[fit.data]
       IN  /\ Len(fit.ready) < p.prefetch
           /\ fit.emitted # Upstream(p)
           /\ \E b \in NextBatches(p, fit.emitted, p.batch) :
                 /\ fit' = [fit EXCEPT !.ready = Append(@, b), !.made = Append(@, b),
                                       !.emitted = @ \cup Elems(b)]
                 /\ heap' = IF p.cache /\ fit.emitted \cup Elems(b) = Upstream(p)
                            THEN [heap EXCEPT ![fit.data].cached =
                                       ReadSoFar(p, fit.emitted \cup Elems(b))]
                            ELSE heap
    /\ UNCHANGED <<pc, reruns, halted, env, rng, nprng, log, err>>

\* fit takes the next batch from the pipeline
FitTake ==
    /\ fit # Idle
    /\ fit.epoch <= fit.epochs
    /\ fit.cur = << >>
    /\ fit.ready # << >>
    /\ Static
    /\ fit' = [fit EXCEPT !.cur = Head(fit.ready), !.ready = Dequeue(fit.ready),
                          !.got = Append(@, Head(fit.ready))]
    /\ UNCHANGED <<pc, reruns, halted, env, heap, rng, nprng, log, err>>

\* fit trains on the batch it took; the pass ends with the last batch
FitStep ==
    /\ fit # Idle
    /\ fit.epoch <= fit.epochs
    /\ fit.cur # << >>
    /\ Static
    /\ heap' = TrainStep(heap, fit.model, fit.g)
    /\ fit' = IF fit.emitted = Upstream(heap[fit.data]) /\ fit.ready = << >>
              THEN [fit EXCEPT !.epoch = @ + 1, !.batch = 1, !.emitted = {},
                               !.cur = << >>, !.made = << >>, !.got = << >>,
                               !.last = Delivered(heap[fit.data], fit.got)]
              ELSE [fit EXCEPT !.batch = @ + 1, !.cur = << >>]
    /\ UNCHANGED <<pc, reruns, halted, env, rng, nprng, log, err>>

\* fit returns after the last epoch; the rest of the cell runs
FitEnd ==
    /\ fit # Idle
    /\ fit.epoch > fit.epochs
    /\ Static
    /\ LET k == fit.cell
           m == fit.model
           h1 == Trained(heap, m)
       IN  IF Cells[k].kind = "exB"
           THEN /\ heap' = h1 \o <<Metric(h1, m, "loss"), Metric(h1, m, "accuracy")>>
                /\ env' = BindNew(BindOpaque(env, {"history", "image_batch", "label_batch"}),
                                  Len(heap), <<"loss", "accuracy">>)
                /\ log' = log \o <<Entry("train", k, h1[m].fits), Entry("evaluate", k, h1[m].fits)>>
                /\ Advance(k)
           ELSE /\ heap' = h1
                /\ env' = BindOpaque(env, {"history"})
                /\ log' = Append(log, Entry("train", k, h1[m].fits))
                /\ Advance(k)
    /\ fit' = Idle
    /\ err' = "none"
    /\ UNCHANGED <<rng, nprng>>

\* the learner's model of Part 3: four Dense layers, compiled, evaluated on
\* one batch before any training
ExA(k) ==
    /\ Pick(k)
    /\ learner
    /\ Cells[k].kind = "exA"
    /\ Static
    /\ IF Ran(k) = 0 THEN Fail(k, "NameError")
       ELSE LET r1 == Bump(rng)
                r2 == Bump(r1)
                r3 == Bump(r2)
                n == Len(heap)
                h1 == heap \o
                      <<Layer("flatten", TRUE, << >>), Dense("dense", rng),
                        Dense("dense_1", r1), Dense("dense_2", r2), Dense("dense_3", r3),
                        [Model(<<n + 1, n + 2, n + 3, n + 4, n + 5>>) EXCEPT !.compiled = TRUE]>>
                m == n + 6
            IN  IF ~Runs(k)
                THEN FailAfter(k, "NameError", Bind(env, "my_model", m), h1, Bump(r3),
                               log \o <<Entry("model", k, 0), Entry("compile", k, 0)>>)
                ELSE
                /\ heap' = h1 \o <<Metric(h1, m, "loss"), Metric(h1, m, "accuracy")>>
                /\ env' = BindNew(Bind(BindOpaque(env, {"image_batch", "label_batch"}),
                                       "my_model", m),
                                  Len(h1), <<"loss", "accuracy">>)
                /\ rng' = Bump(r3)
                /\ log' = log \o <<Entry("model", k, 0), Entry("compile", k, 0),
                                   Entry("evaluate", k, 0)>>
                /\ err' = "none"
                /\ Advance(k)
                /\ UNCHANGED <<nprng, fit>>

\* the learner's solution: my_model.fit(training_batches, epochs = 5), then
\* evaluate on one batch
ExBStart(k) ==
    /\ Pick(k)
    /\ learner
    /\ Cells[k].kind = "exB"
    /\ Static
    /\ IF Ran(k) < 2 THEN FailPartial(k)
       ELSE /\ \E g \in Grads :
                   fit' = FitCall(k, env["my_model"], env["training_batches"], EPOCHS, g)
            /\ env' = BindOpaque(env, {"EPOCHS"})
            /\ UNCHANGED <<pc, reruns, halted, heap, rng, nprng, log, err>>

\* the learner's solution: predict with my_model and plot
ExC(k) ==
    /\ Pick(k)
    /\ learner
    /\ Cells[k].kind = "exC"
    /\ Static
    /\ IF Ran(k) < 2 THEN FailPartial(k)
       ELSE LET m == env["my_model"]
            IN  /\ heap' = Append(heap, Metric(heap, m, "ps"))
                /\ env' = Bind(BindOpaque(env, BoundBy(k, Ran(k))), "ps", Len(heap) + 1)
                /\ log' = Append(log, Entry("predict", k, heap[m].fits))
                /\ err' = IF Runs(k) THEN "none" ELSE Raise("NameError")
                /\ Advance(k)
                /\ UNCHANGED <<rng, nprng, fit>>

---------------------------------------------------------------------------

\* the automatic-differentiation cell of Part 3
AutoDiff(k) ==
    /\ Pick(k)
    /\ Cells[k].kind = "autodiff"
    /\ Static
    /\ IF Ran(k) = 0 THEN Fail(k, "NameError")
       ELSE LET r0 == SetSeed(rng, SEED)
                x == Normal(r0, <<2, 2>>)
                n == Len(heap)
                xr == n + 1
                yr == n + 2
                t1 == TapeWatch(TapeNew, xr)
                y == Square(x)
                t2 == TapeRecord(t1, "pow", xr, yr)
                t3 == TapeExit(t2)
                res == TapeGradient(t3, heap \o <<x, y>>, yr, xr)
                true_grad == Times(2, x)
            IN  IF res.exc # "none"
                THEN FailAfter(k, res.exc, BindNew(env, n, <<"x", "y", "g">>),
                               heap \o <<x, y, res.tape>>, Bump(r0), log)
                ELSE /\ heap' = heap \o <<x, y, res.tape, res.grad, true_grad>>
                     /\ env' = BindNew(env, n, <<"x", "y", "g", "dy_dx", "true_grad">>)
                     /\ rng' = Bump(r0)
                     /\ err' = IF ~Runs(k) THEN Raise("NameError")
                               ELSE IF res.grad.kind = "none" THEN Raise("TypeError")
                               ELSE "none"
                     /\ Advance(k)
                     /\ UNCHANGED <<nprng, fit, log>>

---------------------------------------------------------------------------

Init ==
    /\ nb \in Notebooks
    /\ learner \in BOOLEAN
    /\ \E g \in 0..MaxGen : stream = GenTable(g)
    /\ total \in IF nb = "intro" THEN {MaxExamples}
                 ELSE IF nb = "training" THEN {MaxExamples - 1, MaxExamples}
                 ELSE {MaxExamples + 1, MaxExamples + 2}
    /\ slices = ScaledSlices
    /\ pc = 1
    /\ reruns = 0
    /\ env = << >>
    /\ heap = << >>
    /\ \E s \in 0..MaxEntropy : rng = [seed |-> s, counter |-> 0]
    /\ nprng \in IF nb = "intro" THEN 0..MaxEntropy ELSE {0}
    /\ fit = Idle
    /\ log = << >>
    /\ err = "none"
    /\ halted = FALSE

Next ==
    \/ \E k \in 1..NCells : RunPlain(k)
    \/ \E k \in 1..NCells : RunBind(k)
    \/ \E k \in 1..NCells : ExShipped(k)
    \/ Abort
    \/ \E k \in 1..NCells : Data1(k)
    \/ \E k \in 1..NCells : Ex1(k)
    \/ \E k \in 1..NCells : Attempt(k)
    \/ \E k \in 1..NCells : Ex2(k)
    \/ \E k \in 1..NCells : Data2(k)
    \/ \E k \in 1..NCells : Ex3(k)
    \/ \E k \in 1..NCells : NpRand(k)
    \/ \E k \in 1..NCells : ToTensor(k)
    \/ \E k \in 1..NCells : ToNumpy(k)
    \/ \E k \in 1..NCells : Mul40(k)
    \/ \E k \in 1..NCells : Add1(k)
    \/ \E k \in 1..NCells : Load(k)
    \/ \E k \in 1..NCells : Pipeline(k)
    \/ \E k \in 1..NCells : Extractor(k)
    \/ \E k \in 1..NCells : Freeze(k)
    \/ \E k \in 1..NCells : BuildModel(k)
    \/ \E k \in 1..NCells : Compile(k)
    \/ \E k \in 1..NCells : Evaluate(k)
    \/ \E k \in 1..NCells : Predict(k)
    \/ \E k \in 1..NCells : FitStart(k)
    \/ \E k \in 1..NCells : ExTrainStart(k)
    \/ Prefetch
    \/ FitTake
    \/ FitStep
    \/ FitEnd
    \/ \E k \in 1..NCells : ExA(k)
    \/ \E k \in 1..NCells : ExBStart(k)
    \/ \E k \in 1..NCells : ExC(k)
    \/ \E k \in 1..NCells : AutoDiff(k)

Spec == Init /\ [][Next]_vars

---------------------------------------------------------------------------
(* The kernel after the import cells, before a data cell, under every      *)
(* output table the generator can have: the single-layer cells of Part 1   *)
(* (with the exercises solved) and the automatic-differentiation cell of   *)
(* Part 3.                                                                 *)

Idx(kind) == CHOOSE k \in 1..NCells : Cells[k].kind = kind

InitCell ==
    /\ nb \in {"intro", "training"}
    /\ learner = TRUE
    /\ stream \in [0..(StreamLen - 1) -> TwoLevels]
    /\ total = MaxExamples
    /\ slices = ScaledSlices
    /\ pc = IF nb = "intro" THEN Idx("data1") ELSE Idx("autodiff")
    /\ reruns = 0
    /\ env = BindOpaque(<< >>, UNION {Binds(k) : k \in {j \in 1..NCells : Cells[j].kind = "import"}})
    /\ heap = << >>
    /\ \E s \in 0..MaxEntropy : rng = [seed |-> s, counter |-> 0]
    /\ nprng = 0
    /\ fit = Idle
    /\ log = [i \in 1..Cardinality({j \in 1..NCells : Cells[j].kind \in {"pip", "import"}}) |->
                 Entry("setup", CHOOSE k \in 1..NCells :
                     /\ Cells[k].kind \in {"pip", "import"}
                     /\ Cardinality({j \in 1..k : Cells[j].kind \in {"pip", "import"}}) = i, 0)]
    /\ err = "none"
    /\ halted = FALSE

CellRange == IF nb = "intro" THEN Idx("data1")..(Idx("data2") - 1) ELSE 1..NCells

NextCell ==
    \/ \E k \in CellRange : RunPlain(k)
    \/ \E k \in CellRange : RunBind(k)
    \/ \E k \in CellRange : Data1(k)
    \/ \E k \in CellRange : Ex1(k)
    \/ \E k \in CellRange : Attempt(k)
    \/ \E k \in CellRange : Ex2(k)
    \/ \E k \in CellRange : AutoDiff(k)

SpecCell == InitCell /\ [][NextCell]_vars

---------------------------------------------------------------------------
(* Part 3 as shipped on a training set large enough for the shuffle buffer *)
(* of num_training_examples // 4 to hold more than one example.            *)

InitFeed ==
    /\ nb = "training"
    /\ learner = FALSE
    /\ stream = GenTable(0)
    /\ total = FeedExamples
    /\ slices = ScaledSlices
    /\ pc = 1
    /\ reruns = 0
    /\ env = << >>
    /\ heap = << >>
    /\ rng = [seed |-> 0, counter |-> 0]
    /\ nprng = 0
    /\ fit = Idle
    /\ log = << >>
    /\ err = "none"
    /\ halted = FALSE

NextFeed ==
    \/ \E k \in 1..NCells : RunPlain(k)
    \/ \E k \in 1..NCells : RunBind(k)
    \/ \E k \in 1..NCells : ExShipped(k)
    \/ \E k \in 1..NCells : Load(k)
    \/ \E k \in 1..NCells : Pipeline(k)
    \/ \E k \in 1..NCells : BuildModel(k)
    \/ \E k \in 1..NCells : Compile(k)
    \/ \E k \in 1..NCells : Evaluate(k)
    \/ \E k \in 1..NCells : FitStart(k)
    \/ Prefetch
    \/ FitTake
    \/ FitStep
    \/ FitEnd
    \/ \E k \in 1..NCells : Predict(k)
    \/ \E k \in 1..NCells : AutoDiff(k)

SpecFeed == InitFeed /\ [][NextFeed]_vars

---------------------------------------------------------------------------
(* Part 8 up to its input pipeline, on datasets of every size up to        *)
(* MaxTotal and of the size of cats_vs_dogs, cut in hundredths.            *)

InitSplit ==
    /\ nb = "transfer"
    /\ learner = FALSE
    /\ stream = GenTable(0)
    /\ total \in (1..MaxTotal) \cup {CatsVsDogs}
    /\ slices = Percent
    /\ pc = 1
    /\ reruns = 0
    /\ env = << >>
    /\ heap = << >>
    /\ rng = [seed |-> 0, counter |-> 0]
    /\ nprng = 0
    /\ fit = Idle
    /\ log = << >>
    /\ err = "none"
    /\ halted = FALSE

NextSplit ==
    \/ \E k \in 1..NCells : RunPlain(k)
    \/ \E k \in 1..NCells : RunBind(k)
    \/ \E k \in 1..NCells : Load(k)
    \/ \E k \in 1..NCells : Pipeline(k)

SpecSplit == InitSplit /\ [][NextSplit]_vars

---------------------------------------------------------------------------
(* Properties *)

Has(op) == \E i \in 1..Len(log) : log[i].op = op

First(op) == CHOOSE i \in 1..Len(log) : log[i].op = op /\ \A j \in 1..(i - 1) : log[j].op # op

\* the operations of the list each happen, first occurrences in this order
InOrder(ops) ==
    /\ \A i \in 1..Len(ops) : Has(ops[i])
    /\ \A i \in 1..(Len(ops) - 1) : First(ops[i]) < First(ops[i + 1])

\* an evaluation or prediction of a cell that is presented as following training
PostTraining(e) == e.after /\ e.op \in {"evaluate", "predict"}

\* the cells were run once, top to bottom, to the end
RunOver == pc = NCells + 1 /\ reruns = 0 /\ ~halted

\* some post-training evaluation or prediction follows the first completed fit
EvaluatedAfterFit ==
    \E i \in 1..Len(log) : PostTraining(log[i]) /\ First("train") < i

\* C1 as stated: every notebook, run top to bottom, performs setup, dataset
\* load, pipeline, model definition, a fit call and evaluation in this order,
\* and no post-training evaluation or prediction runs before a fit completed.
C1_EveryNotebook ==
    /\ RunOver =>
          /\ InOrder(<<"setup", "load", "pipeline", "model", "train">>)
          /\ EvaluatedAfterFit
    /\ reruns = 0 => \A i \in 1..Len(log) : PostTraining(log[i]) => log[i].fits >= 1

\* C1: run once top to bottom, Part 3 performs setup, dataset load, pipeline,
\* model definition, a fit call and post-training evaluation in this order,
\* and each of its post-training evaluations and predictions uses a model on
\* which a fit call completed.  Part 1 performs the setup only: no dataset,
\* model or fit.  Part 8 performs setup, load, pipeline and model definition
\* in this order; it fits the model only if the learner wrote the training
\* cell, and as shipped its prediction cell uses a model that was never fit.
C1_StagesByNotebook ==
    /\ (RunOver /\ nb = "training") =>
          /\ InOrder(<<"setup", "load", "pipeline", "model", "train">>)
          /\ EvaluatedAfterFit
    /\ (reruns = 0 /\ nb = "training") =>
          \A i \in 1..Len(log) : PostTraining(log[i]) => log[i].fits >= 1
    /\ (reruns = 0 /\ nb = "intro") => \A i \in 1..Len(log) : log[i].op = "setup"
    /\ (RunOver /\ nb = "intro") => Has("setup")
    /\ (RunOver /\ nb = "transfer") =>
          /\ InOrder(<<"setup", "load", "pipeline", "model">>)
          /\ Has("train") <=> learner
          /\ Has("train") => First("model") < First("train")
          /\ \E i \in 1..Len(log) : PostTraining(log[i])
          /\ \A i \in 1..Len(log) :
                PostTraining(log[i]) => log[i].fits = (IF learner THEN 1 ELSE 0)

\* Part 3 ran to its end and evaluated the model after the fit call
C1_Witness ==
    /\ RunOver /\ nb = "training" /\ ~learner /\ EvaluatedAfterFit
    /\ \E i \in 1..Len(log) : PostTraining(log[i]) /\ log[i].fits = 1

\* C2: in a run of the cells top to bottom on a fresh kernel, every name the
\* next cell reads is already bound by an earlier cell, and no cell ends
\* with a NameError.
C2_NamesBound ==
    reruns = 0 =>
        /\ err # "NameError"
        /\ (~halted /\ fit = Idle /\ pc <= NCells) => Bound(Reads(pc))

\* the run of Part 3 reached the exercise cell that prints loss and accuracy
C2_Witness ==
    /\ nb = "training" /\ reruns = 0 /\ ~learner
    /\ pc = Idx("exA")
    /\ {"loss", "accuracy"} \subseteq DOMAIN env
    /\ heap[env["loss"]].fits = 1

\* C3: after the automatic-differentiation cell, the gradient dy_dx the tape
\* gives for y = x ** 2 equals 2 * x element by element, for every 2x2 x:
\* the maximum absolute difference between true_grad and dy_dx is zero.
C3_GradientIsTwoX ==
    (nb = "training" /\ "dy_dx" \in DOMAIN env) =>
        LET x == heap[env["x"]]
            d == heap[env["dy_dx"]]
            t == heap[env["true_grad"]]
        IN  /\ d.kind = "array"
            /\ d.shape = <<2, 2>>
            /\ \A i \in 1..4 : d.v[i] = 2 * x.v[i]
            /\ t = d
            /\ MaxAbs(Sub(t, d)) = 0

\* the cell ran on an x with entries of both signs
C3_Witness ==
    /\ nb = "training" /\ "dy_dx" \in DOMAIN env
    /\ heap[env["x"]].v[1] < 0 /\ heap[env["x"]].v[2] > 0
    /\ heap[env["dy_dx"]].v[1] = 2 * heap[env["x"]].v[1]

\* C4: a tape gives a gradient only with respect to values it watched while
\* the operations were recorded.  In the automatic-differentiation cell x is
\* watched before the operation on it runs, the operation is recorded while
\* the tape is open, the gradient is requested exactly once and after the
\* block was left, and dy_dx is a tensor, not None; the same block without
\* the call of watch records nothing and gives None for x, and so does a
\* tensor the tape never watched.  In every training step the tape watches
\* the variables the forward pass reads without any call of watch exactly
\* when they are trainable variables, those of a frozen layer included; it
\* can give a gradient for exactly the watched ones, and only the weights of
\* watched variables of trainable layers move.
C4_TapeProtocol ==
    /\ [](/\ (nb = "training" /\ "g" \in DOMAIN env) =>
                LET t == heap[env["g"]]
                    fresh == [t EXCEPT !.used = FALSE]
                    unwatched == TapeExit(TapeRecord(TapeNew, "pow", env["x"], env["y"]))
                IN  /\ t.events = <<"enter", "watch", "record", "exit", "gradient">>
                    /\ ~t.open
                    /\ t.used
                    /\ t.ops = <<[op |-> "pow", src |-> env["x"], dst |-> env["y"]]>>
                    /\ env["x"] \in t.watched
                    /\ heap[env["dy_dx"]].kind = "array"
                    /\ unwatched.ops = << >>
                    /\ TapeGradient(unwatched, heap, env["y"], env["x"]).grad = NoneObj
                    /\ env["true_grad"] \notin t.watched
                    /\ TapeGradient(fresh, heap, env["y"], env["true_grad"]).grad = NoneObj
                    /\ TapeGradient(t, heap, env["y"], env["x"]).exc = "RuntimeError"
           /\ \A m \in 1..Len(heap) :
                (heap[m].kind = "model" /\ heap[m].tape.kind = "tape") =>
                    LET st == heap[m].tape
                    IN  /\ ~st.open
                        /\ st.used
                        /\ \A i \in 1..Len(st.events) : st.events[i] # "watch"
                        /\ \A l \in AllLayers(heap, m) :
                              l \in Reaches(st.ops, Len(st.ops), {m}) <=> l \in st.watched)
    /\ [][\A m \in 1..Len(heap) :
            (heap[m].kind = "model" /\ heap'[m].steps # heap[m].steps) =>
                LET st == heap'[m].tape
                IN  /\ st.kind = "tape"
                    /\ \A l \in AllLayers(heap, m) :
                          /\ l \in st.watched <=>
                                (heap[l].variable_trainable /\ heap[l].w # << >>)
                          /\ heap'[l].w # heap[l].w =>
                                (l \in st.watched /\ heap[l].trainable)
                          /\ (l \in st.watched /\ heap[l].trainable /\ fit.g # 0) =>
                                heap'[l].w # heap[l].w]_vars

\* the training notebook ran from top to bottom through the cell: the steps
\* of model.fit left a tape that watched the Dense layers without a call of
\* watch, and the cell's own tape gave dy_dx after g.watch(x)
C4_Witness ==
    /\ nb = "training" /\ reruns = 0 /\ pc = Idx("autodiff") + 1
    /\ err = "none"
    /\ heap[env["g"]].used
    /\ heap[env["dy_dx"]].kind = "array"
    /\ "model" \in DOMAIN env
    /\ heap[env["model"]].tape.kind = "tape"
    /\ \E l \in AllLayers(heap, env["model"]) : l \in heap[env["model"]].tape.watched

\* the first layer of the model: the feature extractor
ModelExtractor == heap[env["model"]].layers[1]

\* C5: once the freeze cell has run and the model is built on the feature
\* extractor, no step, training steps included, changes the extractor's
\* weights or biases; a frozen layer never changes, and a training step
\* changes only the Dense layer of the model it trains.
C5_FrozenUnchanged ==
    [][ /\ (nb = "transfer" /\ reruns = 0 /\ "model" \in DOMAIN env) =>
              /\ ~heap[ModelExtractor].trainable
              /\ heap[ModelExtractor].w = Pretrained
              /\ heap'[ModelExtractor].w = heap[ModelExtractor].w
        /\ \A r \in 1..Len(heap) :
              (heap[r].kind = "layer" /\ ~heap[r].trainable) => heap'[r].w = heap[r].w
        /\ (nb = "transfer" /\ fit # Idle /\ fit' # Idle) =>
              \A r \in 1..Len(heap) :
                  heap'[r] # heap[r] => r \in {fit.model, heap[fit.model].layers[2]}
      ]_vars

\* training steps ran on the model: the Dense layer moved, the extractor did not
C5_Witness ==
    /\ nb = "transfer" /\ reruns = 0 /\ "model" \in DOMAIN env
    /\ heap[env["model"]].steps >= 2
    /\ heap[heap[env["model"]].layers[2]].w[2] # 0
    /\ heap[ModelExtractor].w = Pretrained

\* the value bound to name n
Val(n) == heap[env[n]]

SingleLayerShapes ==
    /\ {"features", "weights", "bias"} \subseteq DOMAIN env
    /\ Val("features").shape = <<1, 5>>
    /\ Val("weights").shape = <<1, 5>>
    /\ Val("bias").shape = <<1, 1>>

\* C6: tf.matmul(features, weights) on features and weights of shape (1, 5)
\* raises InvalidArgumentError, since 5 columns meet 1 row; nothing catches
\* it, so the cell ends with that error, y is not assigned by it, and
\* features, weights and bias are unchanged.  The product is defined exactly
\* when the columns of the first operand equal the rows of the second.
C6_MatmulShapeError ==
    [][ (\E k \in 1..NCells : Attempt(k)) =>
            /\ Bound({"features", "weights", "bias"}) =>
                  (err' = "none" <=> Val("features").shape[2] = Val("weights").shape[1])
            /\ SingleLayerShapes =>
                  /\ err' = "InvalidArgumentError"
                  /\ env' = env
                  /\ heap' = heap
      ]_vars

\* the call was tried on (1, 5) operands and the cell ended with the error
C6_Witness ==
    /\ nb = "intro" /\ learner /\ pc = Idx("ex2") + 1
    /\ SingleLayerShapes
    /\ err = "InvalidArgumentError"

\* C7: for features and weights of shape (1, 5) and bias of shape (1, 1),
\* the output of the cell using tf.matmul(features, weights,
\* transpose_b=True) equals the output y the element-wise cell left:
\* sigmoid(reduce_sum(multiply(features, weights)) + bias).
C7_SameOutput ==
    [][ ((\E k \in 1..NCells : Ex2(k)) /\ SingleLayerShapes /\ "y" \in DOMAIN env) =>
            /\ err' = "none"
            /\ Val("y") = sigmoid_activation(
                   Add(ReduceSum(Multiply(Val("features"), Val("weights"))), Val("bias")))
            /\ heap'[env'["y"]] = Val("y")
            /\ env'["y"] # env["y"]
      ]_vars

\* both cells ran, on features and weights whose products do not cancel
C7_Witness ==
    /\ nb = "intro" /\ learner /\ pc = Idx("ex2") + 1 /\ reruns = 0
    /\ err = "none"
    /\ SingleLayerShapes
    /\ Val("y").shape = <<1, 1>>
    /\ Val("y").v[1] > Scale \div 2
    /\ \E i \in 1..5 : Val("features").v[i] # Val("weights").v[i]

\* C8: the cell calling tf.matmul with transpose_b=True leaves weights bound
\* to the same tensor, of shape (1, 5) and with the same values, and leaves
\* features and bias unchanged.
C8_TransposeLeavesOperands ==
    [][ ((\E k \in 1..NCells : Ex2(k)) /\ SingleLayerShapes) =>
            /\ \A n \in {"features", "weights", "bias"} :
                  /\ env'[n] = env[n]
                  /\ heap'[env'[n]] = heap[env[n]]
            /\ heap'[env'["weights"]].shape = <<1, 5>>
            /\ \A r \in 1..Len(heap) : heap'[r] = heap[r]
      ]_vars

\* the cell ran and weights is still (1, 5), with two different entries
C8_Witness ==
    /\ nb = "intro" /\ learner /\ pc = Idx("ex2") + 1
    /\ "y" \in DOMAIN env /\ err = "none"
    /\ SingleLayerShapes
    /\ env["y"] = Len(heap)
    /\ \E i, j \in 1..5 : Val("weights").v[i] # Val("weights").v[j]

\* C9: b = b * 40 leaves the values of a and c unchanged and a = a + 1
\* leaves the values of b and c unchanged, in whatever order and however
\* often the two cells run, and whether or not the conversions share memory.
C9_NoWriteThrough ==
    [][ /\ (\E k \in 1..NCells : Mul40(k)) /\ Bound({"a", "b", "c"}) =>
              /\ heap'[env'["a"]] = Val("a")
              /\ heap'[env'["c"]] = Val("c")
              /\ heap'[env'["b"]] = Times(40, Val("b"))
        /\ (\E k \in 1..NCells : Add1(k)) /\ Bound({"a", "b", "c"}) =>
              /\ heap'[env'["b"]] = Val("b")
              /\ heap'[env'["c"]] = Val("c")
              /\ heap'[env'["a"]] = Add(Val("a"), Scalar(Scale))
      ]_vars

\* b = b * 40 ran a second time, after a = a + 1, on conversions that shared
\* the array's memory
C9_Witness ==
    /\ nb = "intro" /\ reruns = 1 /\ pc = NCells + 1
    /\ Bound({"a", "b", "c"})
    /\ env["c"] < env["a"] /\ env["c"] < env["b"] /\ env["a"] < env["b"]
    /\ Len(heap) = env["b"]
    /\ Val("b") = Times(40 * 40, Val("c"))
    /\ Val("a") = Add(Val("c"), Scalar(Scale))
    /\ \A r \in 1..Len(heap) : r < env["c"] => heap[r] # Val("c")

\* the operations a seeded cell draws its tensors with
SeededKinds == {"data1", "data2", "autodiff"}

\* the tensors the seeded cell of kind kd draws, in the order it draws them
Drawn(kd) ==
    IF kd = "data1" THEN <<"features", "weights", "bias">>
    ELSE IF kd = "data2" THEN <<"features", "W1", "W2", "B1", "B2">>
    ELSE <<"x">>

\* C10: a cell that calls tf.random.set_seed(7) and then draws tensors with
\* tf.random draws the same tensors whenever it is executed, whatever the
\* state of the generator before: executed again, it binds each name to a
\* tensor equal to the one its previous execution bound, and every tensor
\* equals the draw of a generator just seeded with 7.
C10_SeededCellsRepeat ==
    [][ \A k \in 1..NCells :
          (Cells[k].kind \in SeededKinds /\ (Data1(k) \/ Data2(k) \/ AutoDiff(k))) =>
              LET d == Drawn(Cells[k].kind)
              IN  /\ \A n \in Binds(k) \cap DOMAIN env :
                        (env[n] > 0 /\ heap[env[n]].kind = "array"
                           /\ heap'[env'[n]].shape = heap[env[n]].shape)
                        => heap'[env'[n]] = heap[env[n]]
                  /\ \A i \in 1..Len(d) :
                        heap'[env'[d[i]]] =
                            Normal([seed |-> SEED, counter |-> i - 1], heap'[env'[d[i]]].shape)
      ]_vars

\* the first data cell of Part 1 was executed a second time, on a generator
\* whose earlier cells had drawn from it
C10_Witness ==
    /\ nb = "intro" /\ reruns = 1 /\ pc = NCells + 1
    /\ rng = [seed |-> SEED, counter |-> 3]
    /\ SingleLayerShapes
    /\ env["features"] = Len(heap) - 2
    /\ "c" \in DOMAIN env

\* C11: the cell "tf.random.set_seed(7); a = np.random.rand(4,3)" is
\* reproducible: the array a it binds is the one it binds from any other
\* state of NumPy's generator.
C11_NumpyReproducible ==
    \A k \in 1..NCells :
        (Cells[k].kind = "nprand" /\ pc = k + 1 /\ reruns = 0 /\ err = "none") =>
            \A s \in 0..(NpPeriod - 1) : Val("a") = NpRandValues(s, <<4, 3>>)

\* C12: model.fit(training_batches, epochs = EPOCHS) makes exactly EPOCHS = 5
\* passes over training_batches; within a pass no example of the training
\* set reaches the model twice, and a completed pass delivered every example
\* exactly once, in batches of batch_size with a shorter last batch.
C12_EveryExampleOncePerEpoch ==
    /\ (fit # Idle /\ Cells[fit.cell].kind = "fit") =>
          LET p == heap[fit.data]
              examples == 1..heap[env["training_set"]].n
          IN  /\ fit.epochs = EPOCHS
              /\ fit.epoch <= EPOCHS + 1
              /\ \A e \in examples : Count(e, fit.got \o fit.ready) <= 1
              /\ (fit.emitted = Upstream(p) /\ fit.ready = << >>) =>
                    /\ \A e \in examples : Count(e, fit.got) = 1
                    /\ Len(fit.got) = NumBatches(p)
                    /\ \A i \in 1..(Len(fit.got) - 1) : Len(fit.got[i]) = p.batch
              /\ fit.epoch > 1 =>
                    /\ \A e \in examples : fit.last.count[e] = 1
                    /\ fit.last.batches = NumBatches(p)
              /\ (p.cache /\ fit.epoch > 1) => p.cached = heap[env["training_set"]].n
    /\ (nb = "training" /\ ~learner /\ reruns = 0 /\ fit = Idle
          /\ pc > Idx("fit") /\ "history" \in DOMAIN env) =>
          /\ heap[env["model"]].fits = 1
          /\ heap[env["model"]].steps = EPOCHS * NumBatches(heap[env["training_batches"]])

\* the model trains on the last batch of the last pass, a batch shorter than
\* the others, after the shuffle delivered the examples out of their order
C12_Witness ==
    /\ nb = "training" /\ fit # Idle /\ Cells[fit.cell].kind = "fit"
    /\ fit.epoch = EPOCHS
    /\ heap[fit.data].shuffle >= 2
    /\ fit.emitted = 1..total /\ fit.ready = << >> /\ fit.cur # << >>
    /\ Len(fit.got) = 3
    /\ Len(fit.got[3]) < BatchSize
    /\ fit.got[1][1] # 1
    /\ \A e \in 1..total : fit.last.count[e] = 1

\* the worked example's cells that evaluate the model before and after training
EvalBefore == CHOOSE k \in 1..NCells : Cells[k].kind = "evaluate" /\ ~Cells[k].after

EvalAfter == CHOOSE k \in 1..NCells : Cells[k].kind = "evaluate" /\ Cells[k].after

\* C13: in the worked example of Part 3 run top to bottom, the loss and
\* accuracy printed as 'before training' come from model.evaluate on the
\* compiled model before any training step, with its initial weights, and
\* those printed as 'after training' are computed after model.fit has
\* completed all EPOCHS passes.
C13_BeforeAndAfterTraining ==
    (nb = "training" /\ reruns = 0) =>
        /\ (pc > EvalBefore /\ pc <= EvalAfter) =>
              \A n \in {"loss", "accuracy"} :
                  /\ n \in DOMAIN env
                  /\ Val(n).what = n
                  /\ Val(n).steps = 0
                  /\ Val(n).fits = 0
                  /\ heap[env["model"]].compiled
                  /\ (fit = Idle /\ pc <= Idx("fit")) => Val(n).w = Weights(heap, env["model"])
        /\ pc = EvalAfter + 1 =>
              \A n \in {"loss", "accuracy"} :
                  /\ Val(n).fits = 1
                  /\ Val(n).steps = EPOCHS * NumBatches(heap[env["training_batches"]])
                  /\ Val(n).w = Weights(heap, env["model"])

\* the cell printing the values after training has run; the values differ
\* from those printed before training
C13_Witness ==
    /\ nb = "training" /\ reruns = 0 /\ pc = EvalAfter + 1
    /\ Val("loss").fits = 1
    /\ Val("loss").steps > 0
    /\ \E r \in 1..Len(heap) :
          /\ heap[r].kind = "metric" /\ heap[r].what = "loss" /\ heap[r].steps = 0
          /\ heap[r].w # Val("loss").w

\* C14: when the cells of Part 3 run top to bottom, the loss and accuracy
\* the first exercise cell prints as 'Loss before training' and 'Accuracy
\* before training' were computed on a model that no fit call and no
\* training step has touched.
C14_ExercisePrintsUntrained ==
    (nb = "training" /\ reruns = 0 /\ pc = Idx("exA") + 1 /\ err = "none") =>
        \A n \in {"loss", "accuracy"} : Val(n).fits = 0 /\ Val(n).steps = 0

\* the number of examples of the dataset bound to name n
SizeOf(n) == heap[env[n]].n

\* C15: with the subsplit weights [60, 20, 20] the three sets partition the
\* examples; when the total is a multiple of 100 they hold exactly 60%, 20%
\* and 20% of them; when it is not, the sizes can differ from those
\* percentages, as they do for the 23,262 examples of cats_vs_dogs, by less
\* than the 60, 20 and 20 examples of one hundred.
C15_SubsplitSizes ==
    (nb = "transfer" /\ slices = Percent /\ "training_set" \in DOMAIN env) =>
        LET tr == SizeOf("training_set")
            va == SizeOf("validation_set")
            te == SizeOf("test_set")
        IN  /\ tr + va + te = total
            /\ total % 100 = 0 =>
                  /\ 100 * tr = 60 * total
                  /\ 100 * va = 20 * total
                  /\ 100 * te = 20 * total
            /\ total = CatsVsDogs =>
                  /\ 100 * tr # 60 * total
                  /\ 100 * va # 20 * total
                  /\ 100 * te # 20 * total
            /\ 100 * tr >= 60 * total /\ 100 * tr < 60 * (total + 100)
            /\ 100 * va > 20 * (total - 100) /\ 100 * va < 20 * (total + 100)
            /\ 100 * te > 20 * (total - 100) /\ 100 * te <= 20 * total

\* cats_vs_dogs was loaded: the training set holds more than 60% of it
C15_Witness ==
    /\ nb = "transfer" /\ slices = Percent /\ total = CatsVsDogs
    /\ "training_set" \in DOMAIN env
    /\ 100 * SizeOf("training_set") > 60 * total
    /\ SizeOf("training_set") + SizeOf("validation_set") + SizeOf("test_set") = total

\* C17: with .prefetch(1) the consumer sees the batches the pipeline
\* produced, in the order it produced them: at every moment of a pass the
\* batches fit has taken followed by the buffered ones are exactly the batches
\* produced so far (none lost, none delivered twice, none reordered or
\* altered), the batch fit trains on is the last one it took, and the buffer
\* never holds more than 1 batch.
C17_PrefetchTransparent ==
    fit # Idle =>
        /\ fit.got \o fit.ready = fit.made
        /\ Len(fit.ready) <= 1
        /\ heap[fit.data].prefetch = 1
        /\ fit.cur # << >> => fit.cur = fit.got[Len(fit.got)]

\* the pipeline has buffered the third batch while fit trains on the second
C17_Witness ==
    /\ fit # Idle
    /\ fit.cur # << >>
    /\ Len(fit.got) = 2
    /\ Len(fit.ready) = 1
    /\ fit.made = fit.got \o fit.ready

===========================================================================
